---- MODULE Spec2Model ----
(***************************************************************************)
(* Number Properties API (src/main.py): the number-classification          *)
(* primitives, the fun-fact resolution (remote lookup with local           *)
(* fallback) and the two request handlers, as a state machine.             *)
(*                                                                         *)
(* A Python call either returns a value or raises: every modelled          *)
(* expression yields Ok(v) or Raise(type, msg), and a compound expression  *)
(* raises what its first raising operand raises, in evaluation order.      *)
(* Python text is a TLA+ string, built by concatenation; where the code    *)
(* slices or strips, the text is a sequence of one-character strings       *)
(* first.  Python integers beyond TLC's 32-bit range (factorials) are      *)
(* sequences of decimal digits, most significant first.                    *)
(***************************************************************************)
EXTENDS Integers, Sequences, FiniteSets

\* ------------------------------------------------------------------ bounds
\* Requests carry an integer in -MaxNeg .. MaxNum.
MaxNum == 30
MaxNeg == 9
Nums == (0 - MaxNeg) .. MaxNum

\* ------------------------------------------------------- values and raises
Ok(v) == [ok |-> TRUE, val |-> v]
Raise(type, msg) == [ok |-> FALSE, exc |-> [type |-> type, msg |-> msg]]
None == [kind |-> "None"]

\* A Python int-or-str value (the "factorial" entry is one or the other).
PyInt(digits) == [int |-> digits]
PyStr(text) == [str |-> text]

\* ------------------------------------------------------------ Python text
DigitChar == <<"0", "1", "2", "3", "4", "5", "6", "7", "8", "9",
               "a", "b", "c", "d", "e", "f">>

RECURSIVE Join(_)
\* "".join(chars)
Join(chars) == IF chars = <<>> THEN "" ELSE Head(chars) \o Join(Tail(chars))

RECURSIVE BaseDigits(_, _)
\* The digits of n >= 0 in the given base, most significant first ("0" for 0).
BaseDigits(n, base) ==
    IF n < base THEN <<DigitChar[n + 1]>>
    ELSE Append(BaseDigits(n \div base, base), DigitChar[(n % base) + 1])

abs(n) == IF n < 0 THEN 0 - n ELSE n

\* str(n), as characters and as text.
str_chars(n) == IF n < 0 THEN <<"-">> \o BaseDigits(0 - n, 10) ELSE BaseDigits(n, 10)
str(n) == Join(str_chars(n))

\* bin(n) and hex(n): sign, prefix, magnitude.
bin(n) == (IF n < 0 THEN <<"-">> ELSE <<>>) \o <<"0", "b">> \o BaseDigits(abs(n), 2)
hex(n) == (IF n < 0 THEN <<"-">> ELSE <<>>) \o <<"0", "x">> \o BaseDigits(abs(n), 16)

\* chars[2:]
SliceFrom2(chars) == IF Len(chars) <= 2 THEN <<>> ELSE SubSeq(chars, 3, Len(chars))

\* The decimal digits of abs(n), as integers: int(d) for d in str(abs(n)).
RECURSIVE DecDigits(_)
DecDigits(n) == IF n < 10 THEN <<n>> ELSE Append(DecDigits(n \div 10), n % 10)

RECURSIVE SumSeq(_)
SumSeq(s) == IF s = <<>> THEN 0 ELSE Head(s) + SumSeq(Tail(s))

RECURSIVE Pow(_, _)
Pow(b, e) == IF e = 0 THEN 1 ELSE b * Pow(b, e - 1)

\* ------------------------------------------------------------- primitives
RECURSIVE IsqrtFrom(_, _)
IsqrtFrom(n, s) == IF (s + 1) * (s + 1) > n THEN s ELSE IsqrtFrom(n, s + 1)

\* math.isqrt(n): the floor of the square root; ValueError below zero.
isqrt(n) ==
    IF n < 0 THEN Raise("ValueError", "isqrt() argument must be nonnegative")
    ELSE Ok(IsqrtFrom(n, 0))

\* check_square of is_fibonacci, as its pure Python fallback.  A sympy
\* square test differs only below zero (False instead of ValueError), and
\* is_fibonacci never passes a negative argument: 5*0+4 is a square, so the
\* second operand is not evaluated for 0.
check_square(x) ==
    LET s == isqrt(x) IN IF ~s.ok THEN s ELSE Ok(s.val * s.val = x)

\* check_square(5*num**2 + 4) or check_square(5*num**2 - 4), short-circuit.
is_fibonacci(num) ==
    LET a == check_square(5 * num * num + 4) IN
    IF ~a.ok THEN a
    ELSE IF a.val THEN Ok(TRUE)
    ELSE check_square(5 * num * num - 4)

\* sympy.isprime(n): False below 2, else n has no divisor in 2 .. n-1.
isprime(n) == n >= 2 /\ \A d \in 2 .. (n - 1) : n % d # 0

RECURSIVE SortAsc(_)
\* sorted(S) for a finite set of integers.
SortAsc(S) ==
    IF S = {} THEN <<>>
    ELSE LET m == CHOOSE x \in S : \A y \in S : x <= y
         IN <<m>> \o SortAsc(S \ {m})

\* get_factors(num): i and num // i for each i in 1 .. int(sqrt(abs(num)))
\* with num % i == 0 (floor division and modulo of num itself), sorted.
get_factors(num) ==
    LET r == IsqrtFrom(abs(num), 0)
        factors == UNION {{i, num \div i} : i \in {j \in 1 .. r : num % j = 0}}
    IN SortAsc(factors)

\* round(num ** (1/3)): a negative base with a fractional exponent is a
\* complex number, which round() rejects; otherwise the nearest integer r
\* to the cube root, (2r-1)^3 < 8 num < (2r+1)^3.
RECURSIVE CbrtRoundFrom(_, _)
CbrtRoundFrom(n, r) ==
    IF (2 * r + 1) * (2 * r + 1) * (2 * r + 1) > 8 * n THEN r
    ELSE CbrtRoundFrom(n, r + 1)

round_cbrt(num) ==
    IF num < 0
    THEN Raise("TypeError", "type complex doesn't define __round__ method")
    ELSE Ok(CbrtRoundFrom(num, 0))

\* round(num ** (1/3)) ** 3 == num
is_perfect_cube(num) ==
    LET r == round_cbrt(num) IN
    IF ~r.ok THEN r ELSE Ok(r.val * r.val * r.val = num)

\* math.isqrt(num) ** 2 == num
is_perfect_square(num) ==
    LET s == isqrt(num) IN IF ~s.ok THEN s ELSE Ok(s.val * s.val = num)

RECURSIVE BitAnd(_, _)
\* a & b on Python integers (two's complement of unbounded width).
BitAnd(a, b) ==
    IF a = 0 \/ b = 0 THEN 0
    ELSE IF a = -1 THEN b
    ELSE IF b = -1 THEN a
    ELSE (a % 2) * (b % 2) + 2 * BitAnd(a \div 2, b \div 2)

is_power_of_two_unguarded(num) == BitAnd(num, num - 1) = 0

\* (num & (num - 1)) == 0 and num != 0
is_power_of_two(num) == BitAnd(num, num - 1) = 0 /\ num # 0

\* num == sum(int(d) ** len(str(abs(num))) for d in str(abs(num)))
is_armstrong(num) ==
    LET ds == DecDigits(abs(num))
    IN num = SumSeq([k \in 1 .. Len(ds) |-> Pow(ds[k], Len(ds))])

RECURSIVE SumSet(_)
SumSet(S) == IF S = {} THEN 0 ELSE LET x == CHOOSE y \in S : TRUE IN x + SumSet(S \ {x})

\* num > 0 and sum(i for i in range(1, num) if num % i == 0) == num
is_perfect_number(num) ==
    num > 0 /\ SumSet({i \in 1 .. (num - 1) : num % i = 0}) = num

\* ---------------------------------------------------------------- factorial
RECURSIVE BigMulCarry(_, _, _)
\* digits (most significant first) times k plus carry.
BigMulCarry(digits, k, carry) ==
    IF digits = <<>>
    THEN (IF carry = 0 THEN <<>> ELSE DecDigits(carry))
    ELSE LET last == digits[Len(digits)]
             v == last * k + carry
         IN Append(BigMulCarry(SubSeq(digits, 1, Len(digits) - 1), k, v \div 10), v % 10)

RECURSIVE BigFactorial(_)
BigFactorial(n) == IF n = 0 THEN <<1>> ELSE BigMulCarry(BigFactorial(n - 1), n, 0)

\* math.factorial(n): ValueError below zero, else 1 * 2 * ... * n.
factorial(n) ==
    IF n < 0 THEN Raise("ValueError", "factorial() not defined for negative values")
    ELSE Ok(BigFactorial(n))

\* The threshold of the factorial entries.
FactorialLimit == 20

factorial_property_inclusive(num) ==
    IF num <= FactorialLimit
    THEN (LET f == factorial(num) IN IF ~f.ok THEN f ELSE Ok(PyInt(f.val)))
    ELSE Ok(PyStr("Too large to calculate"))

\* math.factorial(num) if num < 20 else "Too large to calculate"
factorial_property(num) ==
    IF num < FactorialLimit
    THEN (LET f == factorial(num) IN IF ~f.ok THEN f ELSE Ok(PyInt(f.val)))
    ELSE Ok(PyStr("Too large to calculate"))

\* ------------------------------------------------------------- local facts
BigStr(digits) == Join([k \in 1 .. Len(digits) |-> DigitChar[digits[k] + 1]])

Elements == <<"beryllium", "boron", "carbon", "nitrogen", "oxygen", "fluorine", "neon">>

\* The list `facts` of get_local_fun_fact, each entry with what evaluating
\* its f-string yields.
facts(num) ==
    LET fib == is_fibonacci(num)
        fact == IF num < FactorialLimit THEN factorial(num) ELSE Ok(<<>>)
        sq == is_perfect_square(num)
        cube == is_perfect_cube(num)
    IN << Ok(str(num) \o " is " \o (IF num % 2 = 0 THEN "even" ELSE "odd") \o "."),
          Ok(str(num) \o " is " \o (IF isprime(num) THEN "prime" ELSE "composite") \o "."),
          IF ~fib.ok THEN fib
          ELSE Ok(str(num) \o " is "
                  \o (IF fib.val THEN "a Fibonacci number" ELSE "not a Fibonacci number")
                  \o "."),
          Ok(str(num) \o " squared is " \o str(num * num) \o "."),
          Ok(str(num) \o " in binary is " \o Join(SliceFrom2(bin(num))) \o "."),
          Ok(str(num) \o " in hexadecimal is " \o Join(SliceFrom2(hex(num))) \o "."),
          IF ~fact.ok THEN fact
          ELSE Ok("The factorial of " \o str(num) \o " is "
                  \o (IF num < FactorialLimit THEN BigStr(fact.val)
                      ELSE "too large to calculate")
                  \o "."),
          IF ~sq.ok THEN sq
          ELSE Ok(str(num) \o " is "
                  \o (IF sq.val THEN "a perfect square" ELSE "not a perfect square")
                  \o "."),
          IF ~cube.ok THEN cube
          ELSE Ok(str(num) \o " is "
                  \o (IF cube.val THEN "a perfect cube" ELSE "not a perfect cube")
                  \o "."),
          Ok(str(num) \o " is the atomic number of "
             \o (IF 4 <= num /\ num <= 10 THEN Elements[(num - 4) + 1]
                 ELSE "an unknown element")
             \o ".") >>

\* random.choice draws one of the ten positions.
Choices == 1 .. 10

\* get_local_fun_fact(num) with random.choice picking position `choice`: the
\* whole list is built first, so the first entry that raises decides.
get_local_fun_fact(num, choice) ==
    LET fs == facts(num)
        bad == {k \in 1 .. Len(fs) : ~fs[k].ok}
    IN IF bad # {} THEN fs[CHOOSE k \in bad : \A j \in bad : k <= j]
       ELSE fs[choice]

\* ------------------------------------------------------------ remote lookup
\* What requests.get(...) followed by raise_for_status() comes to.
RemoteOutcomes == {"ok", "timeout", "http_error", "connection_error"}

\* Response bodies of the remote service, as characters.
Bodies == { <<"a", " ", "f", "a", "c", "t">>,
            <<" ", "a", " ", "f", "a", "c", "t", "\n">>,
            <<"4", "2">> }

Whitespace == {" ", "\n", "\t", "\r"}

RECURSIVE LStrip(_)
LStrip(chars) ==
    IF chars # <<>> /\ Head(chars) \in Whitespace THEN LStrip(Tail(chars)) ELSE chars

RECURSIVE RStrip(_)
RStrip(chars) ==
    IF chars # <<>> /\ chars[Len(chars)] \in Whitespace
    THEN RStrip(SubSeq(chars, 1, Len(chars) - 1))
    ELSE chars

\* response.text.strip()
strip(chars) == Join(RStrip(LStrip(chars)))

\* get_fun_fact after the remote attempt: Timeout, HTTPError and
\* ConnectionError are all RequestException, so each enters the except
\* clause, which calls the local generator; success returns the body.
get_fun_fact_retry(outcome) ==
    IF outcome = "ok" THEN "return"
    ELSE IF outcome = "timeout" THEN "fun_fact"
    ELSE "local"

get_fun_fact_step(outcome) == IF outcome = "ok" THEN "return" ELSE "local"

\* ---------------------------------------------------------- classification
classify_number_zero_power(num) ==
    LET c2 == <<IF num % 2 = 0 THEN "even" ELSE "odd",
                IF isprime(num) THEN "prime" ELSE "composite">>
        fib == is_fibonacci(num)
        sq == is_perfect_square(num)
        cube == is_perfect_cube(num)
    IN IF ~fib.ok THEN fib
       ELSE IF ~sq.ok THEN sq
       ELSE IF ~cube.ok THEN cube
       ELSE Ok(c2
               \o (IF fib.val THEN <<"fibonacci">> ELSE <<>>)
               \o (IF sq.val THEN <<"perfect-square">> ELSE <<>>)
               \o (IF cube.val THEN <<"perfect-cube">> ELSE <<>>)
               \o (IF BitAnd(num, num - 1) = 0 THEN <<"power-of-two">> ELSE <<>>)
               \o (IF is_armstrong(num) THEN <<"armstrong">> ELSE <<>>)
               \o (IF is_perfect_number(num) THEN <<"perfect-number">> ELSE <<>>))

\* classify_number(num): the tags in evaluation order; a check that raises
\* ends the call.
classify_number(num) ==
    LET c1 == <<IF num % 2 = 0 THEN "even" ELSE "odd">>
        c2 == Append(c1, IF isprime(num) THEN "prime" ELSE "composite")
        fib == is_fibonacci(num)
        c3 == IF fib.val THEN Append(c2, "fibonacci") ELSE c2
        sq == is_perfect_square(num)
        c4 == IF sq.val THEN Append(c3, "perfect-square") ELSE c3
        cube == is_perfect_cube(num)
        c5 == IF cube.val THEN Append(c4, "perfect-cube") ELSE c4
        c6 == IF is_power_of_two(num) THEN Append(c5, "power-of-two") ELSE c5
        c7 == IF is_armstrong(num) THEN Append(c6, "armstrong") ELSE c6
        c8 == IF is_perfect_number(num) THEN Append(c7, "perfect-number") ELSE c7
    IN IF ~fib.ok THEN fib
       ELSE IF ~sq.ok THEN sq
       ELSE IF ~cube.ok THEN cube
       ELSE Ok(c8)

\* ------------------------------------------------------------ the handlers
EMOJIS == <<"grinning", "party", "rocket", "star", "fire", "bulb", "rainbow",
            "clover", "notes", "books">>

\* The `properties` dict of get_number_properties, its entries evaluated in
\* the order written.
number_properties(num) ==
    LET fib == is_fibonacci(num)
        sq == is_perfect_square(num)
        cube == is_perfect_cube(num)
        fact == factorial_property(num)
    IN IF ~fib.ok THEN fib
       ELSE IF ~sq.ok THEN sq
       ELSE IF ~cube.ok THEN cube
       ELSE IF ~fact.ok THEN fact
       ELSE Ok([ is_even |-> num % 2 = 0,
                 is_prime |-> isprime(num),
                 is_fibonacci |-> fib.val,
                 is_perfect_square |-> sq.val,
                 is_perfect_cube |-> cube.val,
                 is_power_of_two |-> is_power_of_two(num),
                 is_armstrong |-> is_armstrong(num),
                 is_perfect_number |-> is_perfect_number(num),
                 absolute_value |-> abs(num),
                 sign |-> IF num > 0 THEN "positive"
                          ELSE IF num < 0 THEN "negative" ELSE "zero",
                 factors |-> get_factors(num),
                 digit_sum |-> SumSeq(DecDigits(abs(num))),
                 binary |-> Join(SliceFrom2(bin(num))),
                 hexadecimal |-> Join(SliceFrom2(hex(num))),
                 factorial |-> fact.val ])

\* The dict get_number_properties returns.
number_record(n, props, fact, tags) ==
    [ kind |-> "NumberProperties",
      number |-> n,
      properties |-> props,
      fun_fact |-> fact,
      emoji |-> EMOJIS[(abs(n) % Len(EMOJIS)) + 1],
      classification |-> tags ]

handler_reraise(e) == [kind |-> "raise", exc |-> e]

\* except Exception as e: raise HTTPException(500, detail={...})
handler_except(e) ==
    [ kind |-> "HTTPException",
      status_code |-> 500,
      detail |-> [ error |-> "Internal server error",
                   detail |-> e.msg,
                   suggestion |-> "Try again later or contact support" ] ]

via_query_swallow(r) ==
    IF r.kind = "HTTPException" THEN [kind |-> "dict", body |-> r.detail] ELSE r

\* get_number_properties_via_query: return await get_number_properties(num);
\* r is what the path handler returned or raised.
get_number_properties_via_query(r) == r

Routes == {"get_number_properties", "get_number_properties_via_query"}

\* What the route that was called hands to the framework.
route_outcome(route, r) ==
    IF route = "get_number_properties_via_query"
    THEN get_number_properties_via_query(r)
    ELSE r

\* A direct call's outcome.
call_outcome(r) ==
    IF r.ok THEN [kind |-> "return", val |-> r.val]
    ELSE [kind |-> "raise", exc |-> r.exc]

\* ------------------------------------------------------------------- state
VARIABLES
    entry,          \* the function the caller invoked
    num,            \* its argument
    pc,             \* where the call stands
    properties,     \* the handler's `properties`, once computed
    fun_fact,       \* what get_fun_fact returned to the handler
    ret,            \* the outcome of the call, once it ended
    remote_calls,   \* requests.get calls made in this call
    local_calls,    \* get_local_fun_fact calls made in this call
    remote_outcome, \* how the remote attempt of this call ended
    last            \* the previous response for the same number, if any

vars == <<entry, num, pc, properties, fun_fact, ret, remote_calls, local_calls,
          remote_outcome, last>>

Init ==
    /\ entry = "none"
    /\ num = 0
    /\ pc = "idle"
    /\ properties = None
    /\ fun_fact = None
    /\ ret = None
    /\ remote_calls = 0
    /\ local_calls = 0
    /\ remote_outcome = "none"
    /\ last = None

\* A call of function f with argument n begins.
Begin(f, n, at) ==
    /\ pc = "idle"
    /\ entry' = f
    /\ num' = n
    /\ pc' = at
    /\ properties' = None
    /\ fun_fact' = None
    /\ remote_calls' = 0
    /\ local_calls' = 0
    /\ remote_outcome' = "none"
    /\ last' = IF last # None /\ last.num = n THEN last ELSE None

\* GET /number/{num} or GET /number?num=...
Request(n, route) ==
    /\ Begin(route, n, "properties")
    /\ ret' = None

\* The handler's try block up to the properties dict.
ComputeProperties ==
    /\ pc = "properties"
    /\ LET p == number_properties(num) IN
         IF p.ok
         THEN properties' = p.val /\ pc' = "fun_fact" /\ ret' = ret
         ELSE /\ ret' = route_outcome(entry, handler_except(p.exc))
              /\ pc' = "responded"
              /\ properties' = properties
    /\ UNCHANGED <<entry, num, fun_fact, remote_calls, local_calls, remote_outcome, last>>

\* The fact is resolved with result r: back in the handler, or at the caller
\* of get_fun_fact or get_local_fun_fact.
FunFactEnds(r) ==
    IF entry \notin Routes
    THEN ret' = call_outcome(r) /\ pc' = "responded" /\ fun_fact' = fun_fact
    ELSE IF r.ok
    THEN fun_fact' = r /\ pc' = "classify" /\ ret' = ret
    ELSE /\ ret' = route_outcome(entry, handler_except(r.exc))
         /\ pc' = "responded"
         /\ fun_fact' = fun_fact

\* get_fun_fact's try block: one requests.get with its timeout.
RemoteLookup(outcome, body) ==
    /\ pc = "fun_fact"
    /\ remote_calls' = remote_calls + 1
    /\ remote_outcome' = outcome
    /\ IF get_fun_fact_step(outcome) = "return"
       THEN FunFactEnds(Ok(strip(body)))
       ELSE pc' = get_fun_fact_step(outcome) /\ UNCHANGED <<fun_fact, ret>>
    /\ UNCHANGED <<entry, num, properties, local_calls, last>>

\* get_fun_fact's except clause: return get_local_fun_fact(num).
LocalFact(choice) ==
    /\ pc = "local"
    /\ local_calls' = local_calls + 1
    /\ FunFactEnds(get_local_fun_fact(num, choice))
    /\ UNCHANGED <<entry, num, properties, remote_calls, remote_outcome, last>>

\* The rest of the returned dict: emoji, then classify_number(num).
Classify ==
    /\ pc = "classify"
    /\ LET c == classify_number(num) IN
         ret' = route_outcome(entry,
                    IF c.ok THEN number_record(num, properties, fun_fact.val, c.val)
                    ELSE handler_except(c.exc))
    /\ pc' = "responded"
    /\ UNCHANGED <<entry, num, properties, fun_fact, remote_calls, local_calls,
                   remote_outcome, last>>

\* The outcome reaches the caller; a route's response is remembered.
Respond ==
    /\ pc = "responded"
    /\ pc' = "idle"
    /\ last' = IF entry \in Routes THEN [entry |-> entry, num |-> num, ret |-> ret]
               ELSE last
    /\ UNCHANGED <<entry, num, properties, fun_fact, ret, remote_calls, local_calls,
                   remote_outcome>>

Next ==
    \/ \E n \in Nums, route \in Routes : Request(n, route)
    \/ ComputeProperties
    \/ \E outcome \in RemoteOutcomes, body \in Bodies : RemoteLookup(outcome, body)
    \/ \E choice \in Choices : LocalFact(choice)
    \/ Classify
    \/ Respond

Spec == Init /\ [][Next]_vars

\* ------------------------------------------------- the functions on their own
CallGetFunFact(n) ==
    /\ Begin("get_fun_fact", n, "fun_fact")
    /\ ret' = None

CallGetLocalFunFact(n) ==
    /\ Begin("get_local_fun_fact", n, "local")
    /\ ret' = None

CallClassifyNumber(n) ==
    /\ Begin("classify_number", n, "responded")
    /\ ret' = call_outcome(classify_number(n))

CallGetFactors(n) ==
    /\ Begin("get_factors", n, "responded")
    /\ ret' = call_outcome(Ok(get_factors(n)))

FnNext ==
    \/ \E n \in Nums : CallGetFunFact(n)
    \/ \E n \in Nums : CallGetLocalFunFact(n)
    \/ \E n \in Nums : CallClassifyNumber(n)
    \/ \E n \in Nums : CallGetFactors(n)
    \/ \E outcome \in RemoteOutcomes, body \in Bodies : RemoteLookup(outcome, body)
    \/ \E choice \in Choices : LocalFact(choice)
    \/ Respond

FnSpec == Init /\ [][FnNext]_vars

\* n!, 0 <= n < 20, in decimal digits.
FactorialTable == <<
    <<1>>,
    <<1>>,
    <<2>>,
    <<6>>,
    <<2, 4>>,
    <<1, 2, 0>>,
    <<7, 2, 0>>,
    <<5, 0, 4, 0>>,
    <<4, 0, 3, 2, 0>>,
    <<3, 6, 2, 8, 8, 0>>,
    <<3, 6, 2, 8, 8, 0, 0>>,
    <<3, 9, 9, 1, 6, 8, 0, 0>>,
    <<4, 7, 9, 0, 0, 1, 6, 0, 0>>,
    <<6, 2, 2, 7, 0, 2, 0, 8, 0, 0>>,
    <<8, 7, 1, 7, 8, 2, 9, 1, 2, 0, 0>>,
    <<1, 3, 0, 7, 6, 7, 4, 3, 6, 8, 0, 0, 0>>,
    <<2, 0, 9, 2, 2, 7, 8, 9, 8, 8, 8, 0, 0, 0>>,
    <<3, 5, 5, 6, 8, 7, 4, 2, 8, 0, 9, 6, 0, 0, 0>>,
    <<6, 4, 0, 2, 3, 7, 3, 7, 0, 5, 7, 2, 8, 0, 0, 0>>,
    <<1, 2, 1, 6, 4, 5, 1, 0, 0, 4, 0, 8, 8, 3, 2, 0, 0, 0>>
>>

\* ------------------------------------------------------------------ claims
InSeq(x, s) == \E k \in 1 .. Len(s) : s[k] = x
Count(x, s) == Cardinality({k \in 1 .. Len(s) : s[k] = x})
RouteResponded == entry \in Routes /\ pc = "responded"
RemoteFailures == {"timeout", "http_error", "connection_error"}

\* The texts get_local_fun_fact(n) can return when every template evaluates.
LocalFacts(n) == {facts(n)[k].val : k \in Choices}

IsSquare(n) == n >= 0 /\ \E k \in 0 .. n : k * k = n

RECURSIVE PositivePowerOfTwo(_)
PositivePowerOfTwo(n) ==
    n = 1 \/ (n > 1 /\ n % 2 = 0 /\ PositivePowerOfTwo(n \div 2))

PropertyKeys ==
    {"is_even", "is_prime", "is_fibonacci", "is_perfect_square", "is_perfect_cube",
     "is_power_of_two", "is_armstrong", "is_perfect_number", "absolute_value", "sign",
     "factors", "digit_sum", "binary", "hexadecimal", "factorial"}

CompleteRecord(r) ==
    /\ r.kind = "NumberProperties"
    /\ DOMAIN r = {"kind", "number", "properties", "fun_fact", "emoji", "classification"}
    /\ r.number = num
    /\ DOMAIN r.properties = PropertyKeys
    /\ r.emoji \in {EMOJIS[k] : k \in 1 .. Len(EMOJIS)}
    /\ Len(r.classification) >= 2

Complete500(r) ==
    /\ r.kind = "HTTPException"
    /\ DOMAIN r = {"kind", "status_code", "detail"}
    /\ r.status_code = 500
    /\ DOMAIN r.detail = {"error", "detail", "suggestion"}

\* C1: get_fun_fact(n) returns a string for every integer n and every outcome
\* of the remote lookup and never raises; after a remote failure the string
\* is one of the local fact templates of n.
C1_FunFactAlwaysReturns ==
    (entry = "get_fun_fact" /\ pc = "responded") =>
        /\ ret.kind = "return"
        /\ (remote_outcome \in RemoteFailures => ret.val \in LocalFacts(num))

\* C2: a call of either route ends as a complete NumberProperties record or
\* as an HTTP 500 carrying error, detail and suggestion; until then there is
\* no outcome, and an exception never leaves the handler as itself.
C2_RecordOr500 ==
    entry \in Routes =>
        IF pc \in {"responded", "idle"}
        THEN (CompleteRecord(ret) /\ ~Complete500(ret))
             \/ (Complete500(ret) /\ ~CompleteRecord(ret))
        ELSE ret = None

\* A failure raised in the try block reached the caller as the 500 outcome.
C2_Witness ==
    /\ RouteResponded
    /\ ~number_properties(num).ok
    /\ Complete500(ret)
    /\ ret.detail.detail = number_properties(num).exc.msg

\* C3: the perfect-square check is total: false below zero, isqrt(n)^2 = n
\* from zero on, in the is_perfect_square property, the "perfect-square" tag
\* and the local fact template.
C3_PerfectSquareTotal ==
    RouteResponded =>
        /\ ret.kind = "NumberProperties"
        /\ ret.properties.is_perfect_square = IsSquare(num)
        /\ InSeq("perfect-square", ret.classification) = IsSquare(num)
        /\ facts(num)[8] = Ok(str(num) \o " is "
                              \o (IF IsSquare(num) THEN "a perfect square"
                                  ELSE "not a perfect square")
                              \o ".")

\* C4: get_factors(n) is the strictly ascending sequence of the positive
\* divisors of |n|, and empty for 0.
C4_FactorsArePositiveDivisors ==
    (entry = "get_factors" /\ pc = "responded") =>
        LET f == ret.val IN
        /\ \A i, j \in 1 .. Len(f) : i < j => f[i] < f[j]
        /\ {f[k] : k \in 1 .. Len(f)} = {d \in 1 .. abs(num) : abs(num) % d = 0}
        /\ (num = 0 => f = <<>>)

C6_ParityThenPrimality ==
    (entry = "classify_number" /\ pc = "responded") =>
        /\ ret.kind = "return"
        /\ LET c == ret.val IN
           /\ Len(c) >= 2
           /\ c[1] \in {"even", "odd"}
           /\ c[2] \in {"prime", "composite"}
           /\ Count("even", c) + Count("odd", c) = 1
           /\ Count("prime", c) + Count("composite", c) = 1
           /\ \A i, j \in 1 .. Len(c) : i # j => c[i] # c[j]

\* C7: (n & (n-1)) == 0 and n != 0 is true exactly of the positive powers of
\* two: never for n <= 0, so no response for such n carries "power-of-two"
\* or is_power_of_two = true; true for 8.
C7_PowerOfTwo ==
    /\ is_power_of_two(num) = PositivePowerOfTwo(num)
    /\ is_power_of_two(0 - num) = PositivePowerOfTwo(0 - num)
    /\ is_power_of_two(8)
    /\ ret.kind = "NumberProperties" =>
         /\ ret.properties.is_power_of_two = PositivePowerOfTwo(num)
         /\ InSeq("power-of-two", ret.classification) = PositivePowerOfTwo(num)
    /\ (RouteResponded /\ num <= 0 /\ ret.kind = "NumberProperties") =>
         /\ ~ret.properties.is_power_of_two
         /\ ~InSeq("power-of-two", ret.classification)

\* The response for 8 carries the property and the tag.
C7_Witness ==
    /\ RouteResponded
    /\ num = 8
    /\ ret.kind = "NumberProperties"
    /\ ret.properties.is_power_of_two
    /\ InSeq("power-of-two", ret.classification)

\* C8: for the same number the query route and the path route end in the
\* same kind of outcome, and two records agree on number, properties, emoji
\* and classification.
C8_RoutesAgree ==
    (RouteResponded /\ last # None /\ last.entry # entry /\ last.num = num) =>
        /\ ret.kind \in {"NumberProperties", "HTTPException"}
        /\ last.ret.kind = ret.kind
        /\ ret.kind = "NumberProperties" =>
             /\ last.ret.number = ret.number
             /\ last.ret.properties = ret.properties
             /\ last.ret.emoji = ret.emoji
             /\ last.ret.classification = ret.classification

\* Both routes answered the same number with records that differ in fun_fact.
C8_Witness ==
    /\ RouteResponded
    /\ entry = "get_number_properties_via_query"
    /\ last # None
    /\ last.entry = "get_number_properties"
    /\ last.num = num
    /\ ret.kind = "NumberProperties"
    /\ last.ret.fun_fact # ret.fun_fact

\* C9: within one call the remote source is contacted at most once, a failed
\* attempt is followed by the local generator and not by another attempt, and
\* the local generator runs only after a failed attempt.
C9_OneRemoteAttempt ==
    /\ remote_calls <= 1
    /\ local_calls <= 1
    /\ (remote_calls = 1) = (remote_outcome \in RemoteOutcomes)
    /\ pc = "local" => (remote_calls = 1 /\ remote_outcome \in RemoteFailures)
    /\ local_calls = 1 => (remote_calls = 1 /\ remote_outcome \in RemoteFailures)
    /\ remote_outcome = "ok" => (local_calls = 0 /\ pc # "local")
    /\ (remote_outcome \in RemoteFailures /\ pc # "local") => local_calls = 1

\* A request whose remote attempt timed out and was answered from a local fact.
C9_Witness ==
    /\ RouteResponded
    /\ remote_outcome = "timeout"
    /\ remote_calls = 1
    /\ local_calls = 1
    /\ ret.kind = "NumberProperties"
    /\ ret.fun_fact \in LocalFacts(num)

\* C10: in every record returned the classification agrees with the boolean
\* properties, tag by tag.
C10_TagsAgreeWithProperties ==
    ret.kind = "NumberProperties" =>
        LET p == ret.properties
            c == ret.classification
        IN /\ InSeq("even", c) = p.is_even
           /\ InSeq("odd", c) = ~p.is_even
           /\ InSeq("prime", c) = p.is_prime
           /\ InSeq("composite", c) = ~p.is_prime
           /\ InSeq("fibonacci", c) = p.is_fibonacci
           /\ InSeq("perfect-square", c) = p.is_perfect_square
           /\ InSeq("perfect-cube", c) = p.is_perfect_cube
           /\ InSeq("power-of-two", c) = p.is_power_of_two
           /\ InSeq("armstrong", c) = p.is_armstrong
           /\ InSeq("perfect-number", c) = p.is_perfect_number

\* The record for 6, a perfect number: optional tags present and absent.
C10_Witness ==
    /\ RouteResponded
    /\ num = 6
    /\ ret.kind = "NumberProperties"
    /\ ret.classification = <<"even", "composite", "armstrong", "perfect-number">>

====
